---- MODULE Spec2Model ----
(***************************************************************************)
(* Upload lifecycle of the YouTube upload service: the youtube_uploads     *)
(* rows, the processUpload pipeline (UploadProcessorService), the          *)
(* background sweep (processPendingUploads / startUploadWorker) and the    *)
(* collaborators it calls (OAuthService, VideoProcessingService,           *)
(* YouTubeService, SupabaseService).                                       *)
(*                                                                         *)
(* Time is counted in ticks of ten minutes, so the staleness window of     *)
(* getPendingUploads is one tick.  Every await of processUpload that reads *)
(* or writes shared state (the store rows, the remote service) is a step   *)
(* of its own, so that invocations interleave there; the awaits inside one *)
(* collaborator call that touch only the invocation's own files are one    *)
(* step with the call.                                                     *)
(*                                                                         *)
(* Spec / FairSpec: intake, processUpload and the sweep on the same        *)
(* records.  DeleteSpec: deleteUpload.  TokenSpec: the credential row      *)
(* under connect, disconnect, getUserTokens and hasValidTokens.            *)
(* SweepSpec: one worker's passes over a table of several rows.            *)
(***************************************************************************)
EXTENDS Integers, Sequences, FiniteSets, TLC

\* ---------------------------------------------------------------- bounds
NumRecords == 1
NumSweeps == 1
MaxTime == 2
MaxCrashes == 1

\* ------------------------------------------------------ program constants
StaleWindow == 1
PendingLimit == 20
StuckLimit == 5
BatchLimit == 10

NULL == -1
Owner == 1

Ids == 1..NumRecords
IntakeTasks == 1..NumRecords
SweepTasks == (NumRecords + 1)..(NumRecords + NumSweeps)
Tasks == IntakeTasks \cup SweepTasks

Privacies == {"public", "unlisted", "private"}

VARIABLES uploads, profile, task, last, videos, requests, now, crashes

vars == <<uploads, profile, task, last, videos, requests, now, crashes>>

\* ------------------------------------------------------------ store rows
AbsentRow ==
  [status |-> "absent", youtube_video_id |-> NULL, error_message |-> "",
   updated_at |-> NULL, user_id |-> NULL, cdn_url |-> FALSE, s3_key |-> FALSE,
   thumbnail_url |-> FALSE, scheduled_at |-> NULL, privacy_status |-> "public",
   title |-> 0, description |-> NULL, tags |-> NULL]

\* createYouTubeUpload as called by createYouTubeUploadController.  A text is
\* known by its length in characters and a tag list by the number of its tags;
\* the description and the tags may be null.  Where the metadata is not in
\* question the title is a short one and the record has neither description
\* nor tags.
NewUploadRow(cdn, s3, thumb, sched, priv) ==
  [status |-> "pending", youtube_video_id |-> NULL, error_message |-> "",
   updated_at |-> now, user_id |-> Owner, cdn_url |-> cdn, s3_key |-> s3,
   thumbnail_url |-> thumb, scheduled_at |-> sched, privacy_status |-> priv,
   title |-> 1, description |-> NULL, tags |-> NULL]

\* updateYouTubeUpload: patch the given columns and stamp updated_at
UpdateYouTubeUpload(rows, id, updates) ==
  [rows EXCEPT ![id] =
     [f \in DOMAIN rows[id] |->
        IF f = "updated_at" THEN now
        ELSE IF f \in DOMAIN updates THEN updates[f]
        ELSE rows[id][f]]]

\* ------------------------------------------------- getPendingUploads
RECURSIVE SortByKey(_, _)
SortByKey(S, key) ==
  IF S = {} THEN <<>>
  ELSE LET m == CHOOSE x \in S : \A y \in S :
                   key[x] < key[y] \/ (key[x] = key[y] /\ x <= y)
       IN <<m>> \o SortByKey(S \ {m}, key)

Take(s, n) == SubSeq(s, 1, IF Len(s) < n THEN Len(s) ELSE n)

RECURSIVE Dedupe(_)
Dedupe(s) ==
  IF s = <<>> THEN <<>>
  ELSE LET r == Dedupe(SubSeq(s, 1, Len(s) - 1))
           x == s[Len(s)]
       IN IF \E i \in 1..Len(r) : r[i] = x THEN r ELSE r \o <<x>>

\* the stuck-uploads query with the updated_at condition forgotten
IsStuck_Any(row) == row.status = "processing"

\* .eq('status', 'processing').lt('updated_at', tenMinutesAgo)
IsStuck(row) == row.status = "processing" /\ row.updated_at < now - StaleWindow

\* getPendingUploads without the final slice
GetPendingUploads_Uncapped(rows) ==
  LET pendingData == Take(SortByKey({i \in DOMAIN rows : rows[i].status = "pending"},
                                    [i \in DOMAIN rows |-> i]), PendingLimit)
      stuckData == Take(SortByKey({i \in DOMAIN rows : IsStuck(rows[i])},
                                  [i \in DOMAIN rows |-> rows[i].updated_at]), StuckLimit)
  IN Dedupe(pendingData \o stuckData)

\* the query that looks for the stuck records only
GetPendingUploads_StuckOnly(rows) ==
  LET stuckData == Take(SortByKey({i \in DOMAIN rows : IsStuck(rows[i])},
                                  [i \in DOMAIN rows |-> rows[i].updated_at]), StuckLimit)
  IN Take(Dedupe(stuckData), BatchLimit)

\* the pending query of the earlier revisions:
\* .or(`scheduled_at.is.null,scheduled_at.lte.${nowISO}`)
GetPendingUploads_ReadyOnly(rows) ==
  LET ready(row) == row.status = "pending" /\
                    (row.scheduled_at = NULL \/ row.scheduled_at <= now)
      pendingData == Take(SortByKey({i \in DOMAIN rows : ready(rows[i])},
                                    [i \in DOMAIN rows |-> i]), PendingLimit)
      stuckData == Take(SortByKey({i \in DOMAIN rows : IsStuck(rows[i])},
                                  [i \in DOMAIN rows |-> rows[i].updated_at]), StuckLimit)
      unique == Dedupe(pendingData \o stuckData)
  IN Take(unique, BatchLimit)

\* getPendingUploads: all pending rows by created_at (the order of the ids),
\* then the stuck ones by updated_at, without duplicates, ten at most
GetPendingUploads(rows) ==
  LET pendingData == Take(SortByKey({i \in DOMAIN rows : rows[i].status = "pending"},
                                    [i \in DOMAIN rows |-> i]), PendingLimit)
      stuckData == Take(SortByKey({i \in DOMAIN rows : IsStuck(rows[i])},
                                  [i \in DOMAIN rows |-> rows[i].updated_at]), StuckLimit)
      unique == Dedupe(pendingData \o stuckData)
  IN Take(unique, BatchLimit)

\* ------------------------------------------------------------ task state
IdleTask ==
  [pc |-> "idle", rid |-> 0, batch |-> <<>>, audioUrl |-> "none", signedFor |-> NULL,
   video |-> FALSE, vid |-> NULL, error |-> "", calls |-> {}, left |-> {}]

\* the processUpload invocation that ended last: who ran it, how it ended, the
\* collaborators it called and the files it left on disk
NoOutcome ==
  [task |-> 0, kind |-> "none", rid |-> 0, error |-> "", calls |-> {}, left |-> {}]

StartItem(id, batch) == [IdleTask EXCEPT !.pc = "load", !.rid = id, !.batch = batch]

NoRequest == [sent |-> FALSE, privacyStatus |-> "none", publishAt |-> NULL]

Init ==
  /\ uploads = [i \in Ids |-> AbsentRow]
  /\ profile \in {[access_token |-> FALSE, refresh_token |-> FALSE],
                  [access_token |-> TRUE, refresh_token |-> FALSE],
                  [access_token |-> TRUE, refresh_token |-> TRUE]}
  /\ task = [t \in Tasks |-> IdleTask]
  /\ last = NoOutcome
  /\ videos = <<>>
  /\ requests = [i \in Ids |-> NoRequest]
  /\ now = 0
  /\ crashes = 0

\* ------------------------------------------------------------- intake
\* createYouTubeUploadController: insert the row as pending and start the
\* immediate attempt (Promise.resolve().then(processUpload)).
Create(id) ==
  /\ uploads[id].status = "absent"
  /\ \A j \in Ids : j < id => uploads[j].status # "absent"
  /\ \E cdn \in BOOLEAN, s3 \in BOOLEAN, thumb \in BOOLEAN,
        sched \in {NULL, now + 1}, priv \in Privacies :
       uploads' = [uploads EXCEPT ![id] = NewUploadRow(cdn, s3, thumb, sched, priv)]
  /\ task' = [task EXCEPT ![id] = StartItem(id, <<>>)]
  /\ UNCHANGED <<profile, last, videos, requests, now, crashes>>

\* ------------------------------------------------------- processUpload
\* the guard with the check for processing forgotten
AlreadyProcessed_OnlyUploaded(status) == status = "uploaded"

\* "Check if already processed"
AlreadyProcessed(status) == status \in {"uploaded", "processing"}

\* the sweep's loop with a throw of processUpload ending the pass
AfterProcessUpload_StopOnRaise(t, tk, kind) ==
  IF t \in IntakeTasks \/ kind = "raised" THEN IdleTask
  ELSE [IdleTask EXCEPT !.pc = "delay", !.batch = tk.batch]

\* the next item of a sweep's for-loop, or the end of the pass
NextItem(tk) ==
  IF Len(tk.batch) <= 1 THEN IdleTask
  ELSE StartItem(tk.batch[2], Tail(tk.batch))

\* the task after processUpload ended: the intake attempt is over; the sweep
\* waits 2 s after a normal return and goes straight on after a throw.
AfterProcessUpload(t, tk, kind) ==
  IF t \in IntakeTasks THEN IdleTask
  ELSE IF kind = "raised" THEN NextItem(tk)
  ELSE [IdleTask EXCEPT !.pc = "delay", !.batch = tk.batch]

\* processUpload ends (kind: "noop", "returned" or "raised")
Finish(t, tk, kind, error) ==
  /\ last' = [task |-> t, kind |-> kind, rid |-> tk.rid, error |-> error,
               calls |-> tk.calls, left |-> tk.left]
  /\ task' = [task EXCEPT ![t] = AfterProcessUpload(t, tk, kind)]

\* getYouTubeUpload and the guard on its result
PU_Load(t) ==
  /\ task[t].pc = "load"
  /\ LET tk == task[t]
         row == uploads[tk.rid]
     IN IF row.status = "absent"
          THEN Finish(t, tk, "raised", "Upload not found")
        ELSE IF AlreadyProcessed(row.status)
          THEN Finish(t, tk, "noop", "")
        ELSE /\ task' = [task EXCEPT ![t].pc = "claim"]
             /\ UNCHANGED last
  /\ UNCHANGED <<uploads, profile, videos, requests, now, crashes>>

StoreError == "store error"

\* "Update status to processing" (outside the try block)
PU_Claim(t) ==
  /\ task[t].pc = "claim"
  /\ LET tk == task[t] IN
     \E ok \in BOOLEAN :
       IF ok /\ uploads[tk.rid].status # "absent"
         THEN /\ uploads' = UpdateYouTubeUpload(uploads, tk.rid, [status |-> "processing"])
              /\ task' = [task EXCEPT ![t].pc = "tokens"]
              /\ UNCHANGED last
         ELSE /\ Finish(t, tk, "raised", StoreError)
              /\ UNCHANGED uploads
  /\ UNCHANGED <<profile, videos, requests, now, crashes>>

\* an error thrown inside the try block: control goes to the catch handler
Throw(t, tk, error) ==
  task' = [task EXCEPT ![t] = [tk EXCEPT !.pc = "catch", !.error = error]]

\* getUserTokens that answers with tokens whatever is stored
GetUserTokens_Found(p) ==
  [found |-> TRUE, access_token |-> TRUE, refresh_token |-> p.refresh_token]

\* OAuthService.getUserTokens: null unless an access token is stored
GetUserTokens(p) ==
  [found |-> p.access_token,
   access_token |-> p.access_token,
   refresh_token |-> p.access_token /\ p.refresh_token]

\* getUserTokens, then YouTubeService.initialize (which refreshes whenever a
\* refresh token is present)
PU_Tokens(t) ==
  /\ task[t].pc = "tokens"
  /\ LET tk == [task[t] EXCEPT !.calls = @ \cup {"tokens"}]
         tokens == GetUserTokens(profile)
     IN IF ~tokens.found
          THEN Throw(t, tk, "User has not connected YouTube account")
        ELSE IF tokens.refresh_token
          THEN \E r \in {"ok", "invalid_grant", "transient"} :
                 IF r = "invalid_grant"
                   THEN Throw(t, tk, "YouTube account connection expired")
                   ELSE task' = [task EXCEPT ![t] = [tk EXCEPT !.pc = "file"]]
        ELSE task' = [task EXCEPT ![t] = [tk EXCEPT !.pc = "file"]]
  /\ UNCHANGED <<uploads, profile, last, videos, requests, now, crashes>>

\* "Get audio URL (prefer CDN, fallback to signed URL from S3)"
ResolveAudioUrl(cdn_url, s3_key, user_id, signed) ==
  LET audioUrl == IF cdn_url THEN "cdn" ELSE "none" IN
  IF audioUrl = "none" /\ s3_key
    THEN IF signed = "unconfigured"
           THEN [ok |-> FALSE, url |-> "none", signedFor |-> NULL,
                 error |-> "STORAGE_API_URL not configured"]
         ELSE IF signed = "failed"
           THEN [ok |-> FALSE, url |-> "none", signedFor |-> user_id,
                 error |-> "Failed to generate signed URL"]
         ELSE [ok |-> TRUE, url |-> "signed", signedFor |-> user_id, error |-> ""]
    ELSE [ok |-> FALSE, url |-> audioUrl, signedFor |-> NULL,
          error |-> "File has no CDN URL or S3 key"]

\* the files query and the choice of the audio URL
PU_File(t) ==
  /\ task[t].pc = "file"
  /\ LET tk == task[t]
         row == uploads[tk.rid]
     IN \E q \in {"row", "error"}, signed \in {"ok", "failed", "unconfigured"} :
          IF q = "error"
            THEN Throw(t, tk, "File not found in database")
            ELSE LET r == ResolveAudioUrl(row.cdn_url, row.s3_key, row.user_id, signed)
                 IN IF r.ok
                      THEN task' = [task EXCEPT ![t] =
                                      [tk EXCEPT !.pc = "compose", !.audioUrl = r.url,
                                                 !.signedFor = r.signedFor]]
                      ELSE Throw(t, [tk EXCEPT !.audioUrl = r.url,
                                               !.signedFor = r.signedFor], r.error)
  /\ UNCHANGED <<uploads, profile, last, videos, requests, now, crashes>>

\* ------------------------------------------- VideoProcessingService
AudioOutcomes == {"ok", "get_failed", "stream_error"}
FfOutcomes == {"end", "end_stat_failed", "error", "error_partial", "timeout"}

\* createVideoFromAudio: the result and the files of this invocation that are
\* on disk once it has settled.  thumbOk / audio / ff are what the downloads
\* and the ffmpeg run did.
CreateVideoFromAudio(thumbnailUrl, thumbOk, audio, ff) ==
  LET thumbnailPath == thumbnailUrl /\ thumbOk
      thumbFile == IF thumbnailPath THEN {"thumb"} ELSE {}
  IN IF audio # "ok"
       THEN \* throw before ffmpeg is started: nothing is unlinked
            [ok |-> FALSE,
             files |-> thumbFile \cup (IF audio = "stream_error" THEN {"audio"} ELSE {})]
     ELSE IF ff = "end"
       THEN \* stat, cleanupTempFile(audio), cleanupTempFile(thumbnail), resolve
            [ok |-> TRUE, files |-> {"video"}]
     ELSE IF ff = "end_stat_failed"
       THEN \* fs.stat throws inside the end handler: reject without cleanup
            [ok |-> FALSE, files |-> thumbFile \cup {"audio"}]
     ELSE IF ff = "error"
       THEN \* error handler: cleanup audio and thumbnail, reject
            [ok |-> FALSE, files |-> {}]
     ELSE \* "error_partial", "timeout": ffmpeg had begun writing the output;
          \* the error handler (also run after the SIGKILL) unlinks audio and
          \* thumbnail only
          [ok |-> FALSE, files |-> {"video"}]

PU_Compose(t) ==
  /\ task[t].pc = "compose"
  /\ LET tk == [task[t] EXCEPT !.calls = @ \cup {"compose"}]
         row == uploads[tk.rid]
     IN \E thumbOk \in BOOLEAN, audio \in AudioOutcomes, ff \in FfOutcomes :
          LET r == CreateVideoFromAudio(row.thumbnail_url, thumbOk, audio, ff)
          IN IF r.ok
               THEN task' = [task EXCEPT ![t] =
                               [tk EXCEPT !.pc = "publish", !.video = TRUE]]
               ELSE Throw(t, [tk EXCEPT !.left = r.files], "Video creation failed")
  /\ UNCHANGED <<uploads, profile, last, videos, requests, now, crashes>>

\* --------------------------------------------------- YouTubeService
\* the options processUpload passes to uploadVideo
UploadOptions(row) ==
  [title |-> row.title, description |-> row.description, tags |-> row.tags,
   thumbnailUrl |-> row.thumbnail_url, privacyStatus |-> "private", publishAt |-> NULL]

\* the limits uploadVideo cuts the metadata to ("YouTube limit")
TitleLimit == 100
DescriptionLimit == 5000
TagLimit == 500

\* String.prototype.substring(0, n) and Array.prototype.slice(0, n), on the
\* length of the text or list
Substring(length, n) == IF length < n THEN length ELSE n

\* uploadVideo: the snippet part of the videos.insert request; an undefined
\* description is sent as '' and undefined tags as []
Snippet(options) ==
  [title |-> Substring(options.title, TitleLimit),
   description |-> IF options.description = NULL THEN 0
                   ELSE Substring(options.description, DescriptionLimit),
   tags |-> IF options.tags = NULL THEN 0 ELSE Substring(options.tags, TagLimit)]

\* uploadVideo: the status part of the videos.insert request
StatusBody(options) ==
  IF options.publishAt # NULL
    THEN [sent |-> TRUE, privacyStatus |-> "private", publishAt |-> options.publishAt]
    ELSE [sent |-> TRUE, privacyStatus |-> options.privacyStatus, publishAt |-> NULL]

\* uploadThumbnail: what the download and thumbnails.set did
ThumbnailOutcomes == {"set", "forbidden", "failed"}

UploadThumbnail(thumb) ==
  IF thumb = "set" THEN [ok |-> TRUE, error |-> ""]
  ELSE IF thumb = "forbidden"
    THEN [ok |-> FALSE, error |-> "Channel verification required"]
  ELSE [ok |-> FALSE, error |-> "Failed to upload thumbnail"]

\* uploadVideo with the catch around the thumbnail attachment left out
UploadVideo_ThumbnailFatal(options, ins, thumb) ==
  IF ins # "ok"
    THEN [ok |-> FALSE, created |-> FALSE, thumbnail |-> FALSE,
          error |-> "Failed to upload video to YouTube"]
  ELSE IF options.thumbnailUrl /\ ~UploadThumbnail(thumb).ok
    THEN [ok |-> FALSE, created |-> TRUE, thumbnail |-> FALSE,
          error |-> UploadThumbnail(thumb).error]
  ELSE [ok |-> TRUE, created |-> TRUE, thumbnail |-> options.thumbnailUrl, error |-> ""]

\* uploadVideo: videos.insert, then the thumbnail attachment whose error is
\* caught and dropped; created tells whether the remote video exists now
UploadVideo(options, ins, thumb) ==
  IF ins # "ok"
    THEN [ok |-> FALSE, created |-> FALSE, thumbnail |-> FALSE,
          error |-> "Failed to upload video to YouTube"]
    ELSE [ok |-> TRUE, created |-> TRUE,
          thumbnail |-> options.thumbnailUrl /\ UploadThumbnail(thumb).ok,
          error |-> ""]

\* the call of uploadVideo; when it throws, the finally block unlinks the
\* video before the catch handler
PU_Publish(t) ==
  /\ task[t].pc = "publish"
  /\ LET tk == [task[t] EXCEPT !.calls = @ \cup {"publish"}]
         row == uploads[tk.rid]
         options == UploadOptions(row)
     IN /\ requests' = [requests EXCEPT ![tk.rid] = StatusBody(options)]
        /\ \E ins \in {"ok", "error"}, thumb \in ThumbnailOutcomes :
             LET r == UploadVideo(options, ins, thumb) IN
             /\ videos' = IF r.created
                            THEN Append(videos, [rid |-> tk.rid, deleted |-> FALSE,
                                                 thumbnail |-> r.thumbnail,
                                                 snippet |-> Snippet(options)])
                            ELSE videos
             /\ IF r.ok
                  THEN task' = [task EXCEPT ![t] =
                                  [tk EXCEPT !.pc = "mark", !.vid = Len(videos) + 1]]
                  ELSE Throw(t, [tk EXCEPT !.video = FALSE], r.error)
  /\ UNCHANGED <<uploads, profile, last, now, crashes>>

\* "Update upload record with success", then the finally block
PU_Mark(t) ==
  /\ task[t].pc = "mark"
  /\ LET tk == [task[t] EXCEPT !.video = FALSE] IN
     \E ok \in BOOLEAN :
       IF ok /\ uploads[tk.rid].status # "absent"
         THEN /\ uploads' = UpdateYouTubeUpload(uploads, tk.rid,
                   [status |-> "uploaded", youtube_video_id |-> tk.vid])
              /\ Finish(t, tk, "returned", "")
         ELSE /\ Throw(t, tk, StoreError)
              /\ UNCHANGED <<uploads, last>>
  /\ UNCHANGED <<profile, videos, requests, now, crashes>>

\* error.message || 'Unknown error occurred'
ErrorMessage(error) == IF error = "" THEN "Unknown error occurred" ELSE error

\* the catch handler's update with the status column forgotten
FailedUpdates_NoStatus(error) == [error_message |-> ErrorMessage(error)]

\* the columns the catch handler writes
FailedUpdates(error) == [status |-> "failed", error_message |-> ErrorMessage(error)]

\* the catch handler: "Update upload record with error", then rethrow
PU_Catch(t) ==
  /\ task[t].pc = "catch"
  /\ LET tk == task[t] IN
     \E ok \in BOOLEAN :
       IF ok /\ uploads[tk.rid].status # "absent"
         THEN /\ uploads' = UpdateYouTubeUpload(uploads, tk.rid, FailedUpdates(tk.error))
              /\ Finish(t, tk, "raised", tk.error)
         ELSE /\ Finish(t, tk, "raised", StoreError)
              /\ UNCHANGED uploads
  /\ UNCHANGED <<profile, videos, requests, now, crashes>>

\* ------------------------------------------------------------- sweep
\* startUploadWorker -> processPendingUploads: fetch the batch, start on its
\* first record (a pass over an empty batch does nothing)
SweepStart(t) ==
  /\ t \in SweepTasks
  /\ task[t].pc = "idle"
  /\ LET batch == GetPendingUploads(uploads) IN
       /\ batch # <<>>
       /\ task' = [task EXCEPT ![t] = StartItem(batch[1], batch)]
  /\ UNCHANGED <<uploads, profile, last, videos, requests, now, crashes>>

\* the 2 s delay after a processUpload that returned
Delay(t) ==
  /\ task[t].pc = "delay"
  /\ task' = [task EXCEPT ![t] = NextItem(task[t])]
  /\ UNCHANGED <<uploads, profile, last, videos, requests, now, crashes>>

\* ------------------------------------------------------- environment
\* the process dies and is restarted: every in-flight task is gone, the files
\* they had on disk stay
Crash ==
  /\ crashes < MaxCrashes
  /\ \E t \in Tasks : task[t].pc # "idle"
  /\ crashes' = crashes + 1
  /\ task' = [t \in Tasks |-> IdleTask]
  /\ UNCHANGED <<uploads, profile, last, videos, requests, now>>

Tick ==
  /\ now < MaxTime
  /\ now' = now + 1
  /\ UNCHANGED <<uploads, profile, task, last, videos, requests, crashes>>

Next ==
  \/ \E id \in Ids : Create(id)
  \/ \E t \in Tasks : PU_Load(t)
  \/ \E t \in Tasks : PU_Claim(t)
  \/ \E t \in Tasks : PU_Tokens(t)
  \/ \E t \in Tasks : PU_File(t)
  \/ \E t \in Tasks : PU_Compose(t)
  \/ \E t \in Tasks : PU_Publish(t)
  \/ \E t \in Tasks : PU_Mark(t)
  \/ \E t \in Tasks : PU_Catch(t)
  \/ \E t \in Tasks : SweepStart(t)
  \/ \E t \in Tasks : Delay(t)
  \/ Crash
  \/ Tick

Spec == Init /\ [][Next]_vars

\* The scheduling the code guarantees: setInterval starts a sweep every 30 s,
\* every await of processUpload returns or times out, and time passes.
Fairness ==
  /\ \A t \in Tasks :
       /\ WF_vars(PU_Load(t)) /\ WF_vars(PU_Claim(t)) /\ WF_vars(PU_Tokens(t))
       /\ WF_vars(PU_File(t)) /\ WF_vars(PU_Compose(t)) /\ WF_vars(PU_Publish(t))
       /\ WF_vars(PU_Mark(t)) /\ WF_vars(PU_Catch(t))
       /\ WF_vars(SweepStart(t)) /\ WF_vars(Delay(t))
  /\ WF_vars(Tick)

FairSpec == Spec /\ Fairness

\* ------------------------------------------------------------ helpers
Exists(r) == uploads[r].status # "absent"

VideosOf(r) == {v \in 1..Len(videos) : videos[v].rid = r}

\* task t takes a step of its own (the process does not crash)
Acts(t) == task'[t] # task[t] /\ crashes' = crashes

\* task t is inside processUpload for record r, past the guard
Working(t, r) ==
  task[t].rid = r /\ task[t].pc \in {"claim", "tokens", "file", "compose", "publish", "mark", "catch"}

\* C1: two processUpload invocations on the same pending record publish at
\* most one remote video for it.
C1_AtMostOnePublish == \A r \in Ids : Cardinality(VideosOf(r)) <= 1

\* C2: a record left in processing by an abandoned processUpload, once its
\* updated_at is older than the staleness window, is taken over by the sweep
\* and eventually reaches uploaded or failed.
Abandoned(r) ==
  /\ IsStuck(uploads[r])
  /\ \A t \in Tasks : ~Working(t, r)

C2_StaleReclaimed ==
  \A r \in Ids : [](Abandoned(r) => <>(uploads[r].status \in {"uploaded", "failed"}))

\* C3: the pipeline changes a record's status only along
\* pending -> processing -> {uploaded | failed}; it never moves a record out
\* of uploaded or out of failed.
StatusEdges ==
  {<<"absent", "pending">>, <<"pending", "processing">>,
   <<"processing", "uploaded">>, <<"processing", "failed">>}

C3_MonotonicStatus ==
  [][\A r \in Ids :
       \/ uploads'[r].status = uploads[r].status
       \/ <<uploads[r].status, uploads'[r].status>> \in StatusEdges]_vars

\* C4: every record's status is one of pending, processing, uploaded, failed,
\* and only an uploaded record carries a remote video id.
C4_VideoIdOnlyWhenUploaded ==
  \A r \in Ids :
    Exists(r) =>
      /\ uploads[r].status \in {"pending", "processing", "uploaded", "failed"}
      /\ (uploads[r].youtube_video_id # NULL => uploads[r].status = "uploaded")

\* the step in which processUpload, run by task t past its guard, ends
Ends(t) ==
  /\ \E r \in Ids : Working(t, r)
  /\ Acts(t)
  /\ last'.task = t
  /\ task'[t].pc \in {"idle", "delay", "load"}

\* the errors that come from a collaborator failing (token refresh, files
\* query, signed-URL request, composition, publish, store write)
CollaboratorErrors ==
  {"YouTube account connection expired", "File not found in database",
   "STORAGE_API_URL not configured", "Failed to generate signed URL",
   "Video creation failed", "Failed to upload video to YouTube", StoreError}

\* C5: for a record without thumbnail whose owner has credentials and whose
\* file is resolvable (CDN URL or storage key), a processUpload in which no
\* collaborator fails ends with the record uploaded, a remote video id set and
\* the local video file gone.
C5_HappyPath ==
  [][\A t \in Tasks :
       LET r == task[t].rid IN
       (/\ Ends(t)
        /\ ~uploads[r].thumbnail_url
        /\ uploads[r].cdn_url \/ uploads[r].s3_key
        /\ profile.access_token
        /\ last'.error \notin CollaboratorErrors)
       => /\ last'.kind = "returned"
          /\ uploads'[r].status = "uploaded"
          /\ uploads'[r].youtube_video_id # NULL
          /\ ~task[t].video /\ last'.left = {}]_vars

\* the errors of credential resolution, source-URL resolution, composition and
\* publish
StepErrors ==
  {"User has not connected YouTube account", "YouTube account connection expired",
   "File not found in database", "STORAGE_API_URL not configured",
   "Failed to generate signed URL", "File has no CDN URL or S3 key",
   "Video creation failed", "Failed to upload video to YouTube"}

\* the catch handler of task t runs for one of those errors
Catches(t) == task[t].pc = "catch" /\ task[t].error \in StepErrors /\ Acts(t)

\* C6 as stated: after a failure of credential resolution, source-URL
\* resolution, composition or publish the record is failed with a non-empty
\* message and processUpload re-raises the error.
C6_FailedAndReraised ==
  [][\A t \in Tasks :
       Catches(t) =>
         /\ uploads'[task[t].rid].status = "failed"
         /\ uploads'[task[t].rid].error_message # ""
         /\ last'.kind = "raised" /\ last'.error = task[t].error]_vars

\* C6 amended: that holds whenever the store write recording the failure
\* succeeds; when the write fails the record is left as it was and
\* processUpload raises the store's error instead.
C6_FailedUnlessStoreFails ==
  [][\A t \in Tasks :
       Catches(t) =>
         /\ last'.task = t /\ last'.kind = "raised"
         /\ \/ /\ uploads'[task[t].rid].status = "failed"
               /\ uploads'[task[t].rid].error_message = task[t].error
               /\ uploads'[task[t].rid].error_message # ""
               /\ last'.error = task[t].error
            \/ /\ uploads' = uploads
               /\ last'.error = StoreError]_vars

C6_Witness ==
  /\ last.kind = "raised" /\ last.error \in StepErrors
  /\ uploads[last.rid].status = "failed"
  /\ uploads[last.rid].error_message = last.error

\* C7: when composition fails or times out, the record ends failed with a
\* message (the store write permitting), uploadVideo was not called in that
\* invocation and none of the invocation's local files is left on disk.
C7_ComposeFailureCleansUp ==
  [][\A t \in Tasks :
       (Catches(t) /\ task[t].error = "Video creation failed") =>
         /\ uploads' # uploads =>
              /\ uploads'[task[t].rid].status = "failed"
              /\ uploads'[task[t].rid].error_message # ""
         /\ "publish" \notin last'.calls
         /\ last'.left = {} /\ ~task[t].video]_vars

\* the step in which task t finishes the source-URL step with the files row in
\* hand
ResolvesUrl(t) ==
  /\ task[t].pc = "file" /\ Acts(t)
  /\ task'[t].error # "File not found in database"

\* C8: a CDN URL is used as the audio URL and processing continues to
\* composition; without one, a storage key is exchanged for a signed URL
\* requested for the record's owner; the step fails only when the file has
\* neither, or the signed-URL request fails.
C8_SourceUrlResolution ==
  [][\A t \in Tasks :
       LET row == uploads[task[t].rid]
           signedFailed == task'[t].error \in {"STORAGE_API_URL not configured",
                                               "Failed to generate signed URL"}
       IN ResolvesUrl(t) =>
            /\ row.cdn_url =>
                 task'[t].pc = "compose" /\ task'[t].audioUrl = "cdn"
            /\ (~row.cdn_url /\ row.s3_key) =>
                 \/ /\ task'[t].pc = "compose" /\ task'[t].audioUrl = "signed"
                    /\ task'[t].signedFor = row.user_id
                 \/ task'[t].pc = "catch" /\ signedFailed
            /\ task'[t].pc = "catch" =>
                 (~row.cdn_url /\ ~row.s3_key) \/ signedFailed]_vars

\* C9: the publish request of a record scheduled in the future carries
\* privacy "private" and the scheduled timestamp as publishAt; that of an
\* unscheduled record carries the record's own privacy status.
C9_PublishRequest ==
  \A r \in Ids :
    requests[r].sent =>
      /\ uploads[r].scheduled_at > now =>
           /\ requests[r].privacyStatus = "private"
           /\ requests[r].publishAt = uploads[r].scheduled_at
      /\ uploads[r].scheduled_at = NULL =>
           requests[r].privacyStatus = uploads[r].privacy_status

\* C10: processUpload on a record that is uploaded or processing returns
\* without error, writes nothing and calls no collaborator.
C10_GuardIsNoOp ==
  [][\A t \in Tasks :
       (/\ task[t].pc = "load" /\ Acts(t)
        /\ uploads[task[t].rid].status \in {"uploaded", "processing"})
       => /\ UNCHANGED <<uploads, profile, videos, requests>>
          /\ task'[t].pc \in {"idle", "delay"}
          /\ last' = [task |-> t, kind |-> "noop", rid |-> task[t].rid,
                      error |-> "", calls |-> {}, left |-> {}]]_vars

C10_Witness ==
  /\ last.kind = "noop"
  /\ uploads[last.rid].status \in {"uploaded", "processing"}

StepOrder ==
  {<<"load", "claim">>, <<"claim", "tokens">>, <<"tokens", "file">>,
   <<"file", "compose">>, <<"compose", "publish">>, <<"publish", "mark">>}

\* task t takes a step inside processUpload and is still inside it afterwards
StepsOn(t) ==
  /\ Acts(t) /\ task[t].pc \notin {"idle", "delay"}
  /\ task'[t].pc \notin {"idle", "delay", "load"}

NotConnected == "User has not connected YouTube account"

\* the steps of one processUpload follow the order claim, credentials, source
\* URL, composition, publish, status write (or leave it for the catch
\* handler); composition starts only after the credentials were resolved in
\* the same invocation; without stored credentials the invocation goes to the
\* catch handler having called neither composition nor publish
OrderKept(t) ==
  /\ StepsOn(t) =>
       /\ task'[t].rid = task[t].rid
       /\ \/ <<task[t].pc, task'[t].pc>> \in StepOrder
          \/ task'[t].pc = "catch" /\
               task[t].pc \in {"tokens", "file", "compose", "publish", "mark"}
  /\ (task[t].pc = "compose" /\ Acts(t)) =>
       "tokens" \in task[t].calls /\ profile.access_token
  /\ (task[t].pc = "tokens" /\ Acts(t) /\ ~profile.access_token) =>
       /\ task'[t].pc = "catch" /\ task'[t].error = NotConnected
       /\ task'[t].calls = {"tokens"}

\* the catch handler of task t runs for the missing credentials
CatchesNotConnected(t) ==
  task[t].pc = "catch" /\ task[t].error = NotConnected /\ Acts(t)

\* C23 as stated: within one processUpload the steps occur strictly in the
\* order claim, credential resolution, source-URL resolution, composition,
\* publish, status write; composition is never started unless the credentials
\* were resolved in the same invocation; with no credentials stored the record
\* ends failed and neither composition nor publish was invoked.
C23_StrictOrder ==
  [][\A t \in Tasks :
       /\ OrderKept(t)
       /\ CatchesNotConnected(t) =>
            /\ uploads'[task[t].rid].status = "failed"
            /\ last'.task = t /\ last'.calls = {"tokens"}]_vars

\* C23 amended: the same, except that the record ends failed only when the
\* store write recording the failure succeeds; when that write fails the
\* record is left as it was (processing) and processUpload raises the store's
\* error.
C23_StrictOrderUnlessStoreFails ==
  [][\A t \in Tasks :
       /\ OrderKept(t)
       /\ CatchesNotConnected(t) =>
            /\ last'.task = t /\ last'.kind = "raised" /\ last'.calls = {"tokens"}
            /\ \/ /\ uploads'[task[t].rid].status = "failed"
                  /\ uploads'[task[t].rid].error_message = NotConnected
                  /\ last'.error = NotConnected
               \/ uploads' = uploads /\ last'.error = StoreError]_vars

\* a processUpload for a user without credentials has ended with the record
\* failed, having called the credential resolution only
C23_Witness ==
  /\ last.kind = "raised" /\ last.error = NotConnected /\ last.calls = {"tokens"}
  /\ uploads[last.rid].status = "failed"
  /\ uploads[last.rid].error_message = NotConnected
  /\ ~profile.access_token

\* C24: createVideoFromAudio deletes every intermediate file it downloaded on
\* every exit path: once it has returned or raised, neither the audio file nor
\* the thumbnail file of that invocation is on disk.
C24_IntermediatesDeleted ==
  /\ \A t \in Tasks : task[t].left \cap {"audio", "thumb"} = {}
  /\ last.left \cap {"audio", "thumb"} = {}

\* C29: a processUpload in which uploadVideo returned a remote video id does
\* not mark the record failed, also when its write of uploaded fails.
C29_NotFailedAfterPublish ==
  [][\A t \in Tasks :
       (task[t].pc = "catch" /\ Acts(t) /\ task[t].vid # NULL) =>
         ~(uploads' # uploads /\ uploads'[task[t].rid].status = "failed")]_vars

\* ====================================================== deleteUpload
\* DELETE /api/youtube/upload/:id, run by NumDeletes concurrent requests on
\* records that the pipeline has already brought to some status.
NumDeletes == 1

DeleteCalls == (NumRecords + NumSweeps + 1)..(NumRecords + NumSweeps + NumDeletes)

\* a user who owns no record and has not connected a YouTube account
Stranger == 2
Users == {Owner, Stranger}

IdleDelete ==
  [pc |-> "idle", rid |-> 0, userId |-> 0, vid |-> NULL, calls |-> {},
   response |-> "none", caught |-> ""]

\* the deleteUpload call that ended last: its arguments, how it ended, the
\* collaborators it called, what the remote service answered and the error its
\* catch block swallowed
NoDeleteOutcome ==
  [task |-> 0, kind |-> "none", rid |-> 0, userId |-> 0, error |-> "",
   calls |-> {}, response |-> "none", caught |-> ""]

\* the rows the pipeline leaves behind: a video id is written together with
\* status uploaded, and a later failed write of another invocation keeps it
RowKinds ==
  {k \in [status : {"pending", "processing", "uploaded", "failed"},
          video : BOOLEAN, gone : BOOLEAN] :
     /\ k.status = "uploaded" => k.video
     /\ k.video => k.status \in {"uploaded", "failed"}
     /\ k.gone => k.video}

StoredRow(id, k) ==
  [status |-> k.status, youtube_video_id |-> IF k.video THEN id ELSE NULL,
   error_message |-> IF k.status = "failed" THEN "Video creation failed" ELSE "",
   updated_at |-> 0, user_id |-> Owner, cdn_url |-> FALSE, s3_key |-> TRUE,
   thumbnail_url |-> FALSE, scheduled_at |-> NULL, privacy_status |-> "public",
   title |-> 1, description |-> NULL, tags |-> NULL]

StoredProfiles ==
  {[access_token |-> FALSE, refresh_token |-> FALSE],
   [access_token |-> TRUE, refresh_token |-> FALSE],
   [access_token |-> TRUE, refresh_token |-> TRUE]}

\* videos[i] is the remote video published for record i; deleted also stands
\* for a video the owner removed on YouTube itself
InitDelete ==
  /\ \E k \in [Ids -> RowKinds] :
       /\ uploads = [i \in Ids |-> StoredRow(i, k[i])]
       /\ videos = [i \in Ids |-> [rid |-> i, deleted |-> ~k[i].video \/ k[i].gone,
                                   thumbnail |-> FALSE,
                                   snippet |-> Snippet(UploadOptions(StoredRow(i, k[i])))]]
  /\ profile \in StoredProfiles
  /\ task = [c \in DeleteCalls |-> IdleDelete]
  /\ last = NoDeleteOutcome
  /\ requests = [i \in Ids |-> NoRequest]
  /\ now = 0
  /\ crashes = 0

\* deleteYouTubeUploadController: the ids come from the request
DU_Start(c) ==
  /\ task[c].pc = "idle"
  /\ \E r \in DOMAIN uploads, u \in Users :
       task' = [task EXCEPT ![c] = [IdleDelete EXCEPT !.pc = "load", !.rid = r,
                                                      !.userId = u]]
  /\ UNCHANGED <<uploads, profile, last, videos, requests, now, crashes>>

\* deleteUpload ends (kind: "returned" or "raised")
FinishDelete(c, tk, kind, error) ==
  /\ last' = [task |-> c, kind |-> kind, rid |-> tk.rid, userId |-> tk.userId,
               error |-> error, calls |-> tk.calls, response |-> tk.response,
               caught |-> tk.caught]
  /\ task' = [task EXCEPT ![c] = IdleDelete]

\* the ownership check with the comparison forgotten
OwnsUpload_Anyone(upload, userId) == TRUE

\* "Verify ownership"
OwnsUpload(upload, userId) == upload.user_id = userId

Unauthorized == "Unauthorized: You do not own this upload"

\* getYouTubeUpload, the ownership check and the choice whether there is a
\* remote video to delete
DU_Load(c) ==
  /\ task[c].pc = "load"
  /\ LET tk == task[c]
         upload == uploads[tk.rid]
     IN IF upload.status = "absent"
          THEN FinishDelete(c, tk, "raised", "Upload not found")
        ELSE IF ~OwnsUpload(upload, tk.userId)
          THEN FinishDelete(c, tk, "raised", Unauthorized)
        ELSE IF upload.youtube_video_id # NULL /\ upload.status = "uploaded"
          THEN /\ task' = [task EXCEPT ![c] =
                             [tk EXCEPT !.pc = "remote", !.vid = upload.youtube_video_id]]
               /\ UNCHANGED last
        ELSE /\ task' = [task EXCEPT ![c].pc = "remove"]
             /\ UNCHANGED last
  /\ UNCHANGED <<uploads, profile, videos, requests, now, crashes>>

\* getUserTokens(userId) of the caller
TokensOf(userId) ==
  IF userId = Owner THEN GetUserTokens(profile)
  ELSE [found |-> FALSE, access_token |-> FALSE, refresh_token |-> FALSE]

\* what videos.delete answers for a video
NotFoundResponses == {"404", "cannot be found", "videoNotFound"}
DeleteResponses(video) ==
  IF video.deleted THEN NotFoundResponses \cup {"forbidden"} ELSE {"ok", "forbidden"}

\* deleteVideo: "If video is already deleted (404), treat as success"
DeleteVideo(response) ==
  IF response = "ok" \/ response \in NotFoundResponses
    THEN [ok |-> TRUE, error |-> ""]
    ELSE [ok |-> FALSE, error |-> "Failed to delete video from YouTube"]

\* the try block around the remote deletion; whatever is thrown in it is
\* logged and the call goes on to the database deletion
DU_Remote(c) ==
  /\ task[c].pc = "remote"
  /\ LET tk == [task[c] EXCEPT !.calls = @ \cup {"getUserTokens"}]
         tokens == TokensOf(tk.userId)
         go(calls, response, caught) ==
           task' = [task EXCEPT ![c] = [tk EXCEPT !.pc = "remove", !.calls = @ \cup calls,
                                                  !.response = response,
                                                  !.caught = caught]]
     IN IF ~tokens.found
          THEN go({}, "none", "") /\ UNCHANGED videos
        ELSE \E r \in {"ok", "invalid_grant", "transient"} :
               IF tokens.refresh_token /\ r = "invalid_grant"
                 THEN /\ go({"initialize"}, "none", "YouTube account connection expired")
                      /\ UNCHANGED videos
                 ELSE \E response \in DeleteResponses(videos[tk.vid]) :
                        /\ go({"initialize", "deleteVideo"}, response,
                              DeleteVideo(response).error)
                        /\ videos' = IF response = "ok"
                                       THEN [videos EXCEPT ![tk.vid].deleted = TRUE]
                                       ELSE videos
  /\ UNCHANGED <<uploads, profile, last, requests, now, crashes>>

\* the delete that removes nothing
DeleteYouTubeUpload_Nothing(rows, id, userId) == rows

\* delete().eq('id', uploadId).eq('user_id', userId)
DeleteYouTubeUpload(rows, id, userId) ==
  [rows EXCEPT ![id] = IF @.user_id = userId THEN AbsentRow ELSE @]

\* "Delete from database"; an error of the store is thrown to the caller
DU_Remove(c) ==
  /\ task[c].pc = "remove"
  /\ LET tk == task[c] IN
     \E ok \in BOOLEAN :
       IF ok
         THEN /\ uploads' = DeleteYouTubeUpload(uploads, tk.rid, tk.userId)
              /\ FinishDelete(c, tk, "returned", "")
         ELSE /\ FinishDelete(c, tk, "raised", StoreError)
              /\ UNCHANGED uploads
  /\ UNCHANGED <<profile, videos, requests, now, crashes>>

NextDelete ==
  \/ \E c \in DeleteCalls : DU_Start(c)
  \/ \E c \in DeleteCalls : DU_Load(c)
  \/ \E c \in DeleteCalls : DU_Remote(c)
  \/ \E c \in DeleteCalls : DU_Remove(c)

DeleteSpec == InitDelete /\ [][NextDelete]_vars

\* deleteUpload call c, made by the record's owner, is past the ownership check
\* and takes a step
OwnerDeletes(c) ==
  /\ task[c].pc \in {"remote", "remove"} /\ task'[c] # task[c]
  /\ task[c].userId = uploads[task[c].rid].user_id

\* C11 as stated: a deleteUpload by the owner always removes the local record
\* and does not raise, whether the remote deletion succeeded, reported "not
\* found", failed otherwise or was skipped for want of credentials.
C11_AlwaysRemoved ==
  [][\A c \in DeleteCalls :
       OwnerDeletes(c) =>
         \/ task'[c].pc = "remove"
         \/ /\ last'.task = c /\ last'.kind = "returned"
            /\ uploads'[task[c].rid].status = "absent"]_vars

\* C11 amended: whatever the remote deletion did, the call goes on to the
\* database deletion; it removes the record and returns when that deletion
\* succeeds, and raises the store's error, the record left in place, when it
\* fails.
C11_RemovedUnlessStoreFails ==
  [][\A c \in DeleteCalls :
       OwnerDeletes(c) =>
         \/ task'[c].pc = "remove" /\ uploads' = uploads
         \/ /\ last'.task = c /\ last'.kind = "returned"
            /\ uploads'[task[c].rid].status = "absent"
         \/ /\ last'.task = c /\ last'.kind = "raised" /\ last'.error = StoreError
            /\ task[c].pc = "remove" /\ uploads' = uploads]_vars

\* a deleteUpload returned with the record removed although the remote service
\* answered "not found" or with another error
C11_Witness ==
  /\ last.kind = "returned" /\ "deleteVideo" \in last.calls
  /\ last.response \in NotFoundResponses \/ last.caught # ""
  /\ uploads[last.rid].status = "absent"

\* C12: deleteUpload with a userId that is not the record's owner fails with
\* Unauthorized, leaves the record and the remote video as they were and
\* attempts no remote deletion.
C12_StrangerRejected ==
  [][\A c \in DeleteCalls :
       (/\ task[c].pc = "load" /\ task'[c] # task[c]
        /\ Exists(task[c].rid)
        /\ task[c].userId # uploads[task[c].rid].user_id)
       => /\ last'.task = c /\ last'.kind = "raised" /\ last'.error = Unauthorized
          /\ last'.calls = {}
          /\ task'[c].pc = "idle"
          /\ UNCHANGED <<uploads, videos, profile>>]_vars

C12_Witness ==
  /\ last.kind = "raised" /\ last.error = Unauthorized
  /\ Exists(last.rid) /\ last.userId # uploads[last.rid].user_id

\* ---------------------------------------- deleteUpload during processUpload
\* A record that has just been created, its immediate attempt, and deleteUpload
\* calls on it at any moment of the attempt.  The owner is connected, and the
\* remote deletions that are attempted succeed.
InitRace ==
  /\ now = 0
  /\ \E thumb \in BOOLEAN :
       uploads = [i \in Ids |-> NewUploadRow(FALSE, TRUE, thumb, NULL, "public")]
  /\ profile \in {p \in StoredProfiles : p.access_token}
  /\ task = [t \in IntakeTasks \cup DeleteCalls |->
               IF t \in DeleteCalls THEN IdleDelete ELSE StartItem(t, <<>>)]
  /\ last = NoOutcome
  /\ videos = <<>>
  /\ requests = [i \in Ids |-> NoRequest]
  /\ crashes = 0

\* the remote deletion of deleteUpload, when YouTube accepts it
DU_RemoteOk(c) == DU_Remote(c) /\ task'[c].response = "ok"

NextRace ==
  \/ \E t \in IntakeTasks : PU_Load(t)
  \/ \E t \in IntakeTasks : PU_Claim(t)
  \/ \E t \in IntakeTasks : PU_Tokens(t)
  \/ \E t \in IntakeTasks : PU_File(t)
  \/ \E t \in IntakeTasks : PU_Compose(t)
  \/ \E t \in IntakeTasks : PU_Publish(t)
  \/ \E t \in IntakeTasks : PU_Mark(t)
  \/ \E t \in IntakeTasks : PU_Catch(t)
  \/ \E c \in DeleteCalls : DU_Start(c)
  \/ \E c \in DeleteCalls : DU_Load(c)
  \/ \E c \in DeleteCalls : DU_RemoteOk(c)
  \/ \E c \in DeleteCalls : DU_Remove(c)

RaceSpec == InitRace /\ [][NextRace]_vars

\* remote video v belongs to no record and has not been deleted
Orphaned(v) ==
  /\ ~videos[v].deleted
  /\ ~(Exists(videos[v].rid) /\ uploads[videos[v].rid].youtube_video_id = v)

\* C30: when the processUpload and deleteUpload calls on a record have all
\* ended, in whatever way they interleaved, every remote video created for the
\* record is either the one the record, still existing, carries, or has been
\* deleted remotely.
C30_NoOrphanedVideos ==
  (\A t \in DOMAIN task : task[t].pc = "idle") =>
    \A v \in 1..Len(videos) : ~Orphaned(v)

\* ====================================================== OAuthService
\* The credential row of one user (profiles.youtube_access_token,
\* youtube_refresh_token, youtube_token_expires_at) under connect, disconnect,
\* getUserTokens (the revision that refreshes) and hasValidTokens.  Tokens are
\* numbers, 0 standing for null / undefined / ''.
NumTokens == 2
MaxClock == 7

\* 30 * 60 * 1000 ms and 3600 * 1000 ms in ticks of ten minutes
RefreshMargin == 3
TokenLifetime == 6

NoToken == 0
TokenValues == 1..NumTokens
\* the calls are made one after the other; connect, disconnect and the clock
\* interleave with the steps of a call
TokenCalls == {1}

NoCredential ==
  [youtube_access_token |-> NoToken, youtube_refresh_token |-> NoToken,
   youtube_token_expires_at |-> NULL]

\* an OAuthTokens value; found = FALSE is the null that getUserTokens returns
NoTokens == [found |-> FALSE, access_token |-> NoToken, refresh_token |-> NoToken,
             expires_at |-> NULL]

OAuthTokens(access, refresh, expires) ==
  [found |-> TRUE, access_token |-> access, refresh_token |-> refresh,
   expires_at |-> expires]

\* errors: the message, the numeric code and response.data.error (0 and "none"
\* when the error has none)
NoError == [message |-> "", code |-> 0, error |-> "none"]

InvalidGrantErrors ==
  {[message |-> "invalid_grant", code |-> 400, error |-> "invalid_grant"],
   [message |-> "Token has been expired or revoked", code |-> 0, error |-> "invalid_grant"],
   [message |-> "Request failed with status code 401", code |-> 401, error |-> "invalid_token"]}

TransientErrors ==
  {[message |-> "ETIMEDOUT", code |-> 0, error |-> "none"],
   [message |-> "Service Unavailable", code |-> 503, error |-> "none"]}

ReauthorizationRequired ==
  [message |-> "YouTube account connection expired. Please reconnect your YouTube account in the settings.",
   code |-> 0, error |-> "none"]

SaveFailed == [message |-> "Failed to save OAuth tokens", code |-> 0, error |-> "none"]

\* the messages that contain one of the substrings the code looks for
InvalidMessages ==
  {"invalid_grant", "invalid_token", "Token has been expired or revoked", "token_expired"}

\* the classification that takes every error for an invalid grant
IsInvalidToken_Always(e) == TRUE

\* isInvalidToken, written out twice in the code with the same tests
IsInvalidToken(e) ==
  \/ e.message \in InvalidMessages
  \/ e.code \in {400, 401}
  \/ e.error \in {"invalid_grant", "invalid_token"}

\* what oauth2Client.refreshAccessToken answers: new credentials or an error
ProviderAnswers(access) ==
  {[ok |-> TRUE, access_token |-> a, refresh_token |-> r, error |-> NoError] :
     a \in TokenValues \ {access}, r \in {NoToken} \cup TokenValues}
  \cup {[ok |-> FALSE, access_token |-> NoToken, refresh_token |-> NoToken, error |-> e] :
          e \in InvalidGrantErrors \cup TransientErrors}

\* refreshAccessToken: the new tokens, or the error it throws
RefreshAccessToken(refreshToken, answer) ==
  IF answer.ok
    THEN [ok |-> TRUE, error |-> NoError,
          tokens |-> OAuthTokens(answer.access_token,
                                 IF answer.refresh_token # NoToken
                                   THEN answer.refresh_token ELSE refreshToken,
                                 now + TokenLifetime)]
  ELSE IF IsInvalidToken(answer.error)
    THEN [ok |-> FALSE, error |-> ReauthorizationRequired, tokens |-> NoTokens]
  ELSE [ok |-> FALSE, error |-> answer.error, tokens |-> NoTokens]

\* saveUserTokens with the expiry column forgotten
SaveUserTokens_NoExpiry(tokens) ==
  IF tokens.access_token = NoToken THEN NoCredential
  ELSE [youtube_access_token |-> tokens.access_token,
        youtube_refresh_token |-> tokens.refresh_token,
        youtube_token_expires_at |-> NULL]

\* saveUserTokens: the row after the update; an empty access token clears all
\* three columns
SaveUserTokens(tokens) ==
  IF tokens.access_token = NoToken THEN NoCredential
  ELSE [youtube_access_token |-> tokens.access_token,
        youtube_refresh_token |-> tokens.refresh_token,
        youtube_token_expires_at |-> tokens.expires_at]

NoAnswer == [ok |-> FALSE, access_token |-> NoToken, refresh_token |-> NoToken,
             error |-> NoError]

\* a call of getUserTokens or hasValidTokens: the row it read (data), the
\* provider's answer to its refresh, the tokens refreshAccessToken returned
\* and, once the call is done, what getUserTokens returned (result), the error
\* it threw to its caller (raised) and the answer of hasValidTokens (valid)
IdleCall ==
  [pc |-> "idle", kind |-> "none", data |-> NoCredential, answer |-> NoAnswer,
   refreshed |-> NoTokens, result |-> NoTokens, raised |-> NoError, valid |-> FALSE]

InitToken ==
  /\ profile = NoCredential
  /\ task = [c \in TokenCalls |-> IdleCall]
  /\ last = NoOutcome
  /\ now = 0
  /\ uploads = [i \in Ids |-> AbsentRow]
  /\ videos = <<>>
  /\ requests = [i \in Ids |-> NoRequest]
  /\ crashes = 0

\* what a controller answered last: kind is the controller, error the message
\* of the error it answered with ("" after a success)
Answered(kind, ok) ==
  [NoOutcome EXCEPT !.kind = kind, !.error = IF ok THEN "" ELSE SaveFailed.message]

\* callbackController: the tokens of the code exchange are saved with the
\* default expiry of one hour; a failed save changes nothing
Connect ==
  /\ \E a \in TokenValues, r \in {NoToken} \cup TokenValues, ok \in BOOLEAN :
       /\ profile' = IF ok THEN SaveUserTokens(OAuthTokens(a, r, now + TokenLifetime))
                     ELSE profile
       /\ last' = Answered("connect", ok)
  /\ UNCHANGED <<uploads, task, videos, requests, now, crashes>>

\* the disconnect that takes away the access token only
Disconnect_AccessOnly ==
  /\ \E ok \in BOOLEAN :
       /\ profile' = IF ok THEN [profile EXCEPT !.youtube_access_token = NoToken]
                     ELSE profile
       /\ last' = Answered("disconnect", ok)
  /\ UNCHANGED <<uploads, task, videos, requests, now, crashes>>

\* disconnectController: saveUserTokens with an empty access token
Disconnect ==
  /\ \E ok \in BOOLEAN :
       /\ profile' = IF ok THEN SaveUserTokens(OAuthTokens(NoToken, NoToken, NULL))
                     ELSE profile
       /\ last' = Answered("disconnect", ok)
  /\ UNCHANGED <<uploads, task, videos, requests, now, crashes>>

\* hasValidTokens with the refresh token not looked at
HasValidTokens_ExpiryOnly(tokens) ==
  IF ~tokens.found THEN FALSE
  ELSE IF tokens.expires_at # NULL /\ tokens.expires_at < now THEN FALSE
  ELSE TRUE

\* hasValidTokens, applied to what getUserTokens returned
HasValidTokens(tokens) ==
  IF ~tokens.found THEN FALSE
  ELSE IF tokens.refresh_token # NoToken THEN TRUE
  ELSE IF tokens.expires_at # NULL /\ tokens.expires_at < now THEN FALSE
  ELSE TRUE

TK_Start(c) ==
  /\ task[c].pc \in {"idle", "done"}
  /\ \E kind \in {"getUserTokens", "hasValidTokens"} :
       task' = [task EXCEPT ![c] = [IdleCall EXCEPT !.pc = "read", !.kind = kind]]
  /\ UNCHANGED <<uploads, profile, last, videos, requests, now, crashes>>

\* getUserTokens returns tokens (NoTokens for null) to its caller
Return(c, tk, tokens) ==
  task' = [task EXCEPT ![c] =
             [tk EXCEPT !.pc = "done", !.result = tokens, !.raised = NoError,
                        !.valid = tk.kind = "hasValidTokens" /\ HasValidTokens(tokens)]]

\* the tokens of the row that was read
StoredTokens(data) ==
  OAuthTokens(data.youtube_access_token, data.youtube_refresh_token,
              data.youtube_token_expires_at)

IsExpiredOrExpiringSoon(expiresAt) ==
  expiresAt = NULL \/ expiresAt - now < RefreshMargin

\* the select on profiles and the decision whether to refresh
TK_Read(c) ==
  /\ task[c].pc = "read"
  /\ LET tk == [task[c] EXCEPT !.data = profile]
         data == profile
     IN IF data.youtube_access_token = NoToken
          THEN Return(c, tk, NoTokens)
        ELSE IF /\ IsExpiredOrExpiringSoon(data.youtube_token_expires_at)
                /\ data.youtube_refresh_token # NoToken
          THEN task' = [task EXCEPT ![c] = [tk EXCEPT !.pc = "refresh"]]
        ELSE Return(c, tk, StoredTokens(data))
  /\ UNCHANGED <<uploads, profile, last, videos, requests, now, crashes>>

\* the catch around the refresh.  For an error taken for an invalid token:
\* "Clear invalid tokens from database", then throw the reconnect error; that
\* error, like the error of a failed clearing save, is caught by the try block
\* around the whole of getUserTokens, whose handler returns null.  For any
\* other error: go on to the return of the stored tokens.
AfterRefreshError(c, tk, e) ==
  IF IsInvalidToken(e)
    THEN /\ \E ok \in BOOLEAN :
              profile' = IF ok THEN SaveUserTokens(OAuthTokens(NoToken, NoToken, NULL))
                         ELSE profile
         /\ Return(c, tk, NoTokens)
    ELSE /\ Return(c, tk, StoredTokens(tk.data))
         /\ UNCHANGED profile

\* await this.refreshAccessToken(refreshToken)
TK_Refresh(c) ==
  /\ task[c].pc = "refresh"
  /\ \E answer \in ProviderAnswers(task[c].data.youtube_access_token) :
       LET tk == [task[c] EXCEPT !.answer = answer]
           r == RefreshAccessToken(tk.data.youtube_refresh_token, answer)
       IN IF r.ok
            THEN /\ task' = [task EXCEPT ![c] =
                               [tk EXCEPT !.pc = "save", !.refreshed = r.tokens]]
                 /\ UNCHANGED profile
            ELSE AfterRefreshError(c, tk, r.error)
  /\ UNCHANGED <<uploads, last, videos, requests, now, crashes>>

\* "Save the new tokens to database", then return refreshedTokens; a failed
\* save throws into the catch around the refresh
TK_Save(c) ==
  /\ task[c].pc = "save"
  /\ LET tk == task[c] IN
     \E ok \in BOOLEAN :
       IF ok
         THEN /\ profile' = SaveUserTokens(
                   [tk.refreshed EXCEPT !.refresh_token =
                      IF @ # NoToken THEN @ ELSE tk.data.youtube_refresh_token])
              /\ Return(c, tk, tk.refreshed)
         ELSE AfterRefreshError(c, tk, SaveFailed)
  /\ UNCHANGED <<uploads, last, videos, requests, now, crashes>>

TokenTick ==
  /\ now < MaxClock
  /\ now' = now + 1
  /\ UNCHANGED <<uploads, profile, task, last, videos, requests, crashes>>

NextToken ==
  \/ Connect
  \/ Disconnect
  \/ \E c \in TokenCalls : TK_Start(c)
  \/ \E c \in TokenCalls : TK_Read(c)
  \/ \E c \in TokenCalls : TK_Refresh(c)
  \/ \E c \in TokenCalls : TK_Save(c)
  \/ TokenTick

TokenSpec == InitToken /\ [][NextToken]_vars

\* call c gets the provider's answer to its refresh
Refreshes(c) == task[c].pc = "refresh" /\ task'[c] # task[c]

\* call c, whose refresh the provider accepted, runs the save of the new tokens
Saves(c) == task[c].pc = "save" /\ task'[c] # task[c]

\* C14: when the provider answers the refresh of getUserTokens with an
\* invalid / revoked grant, getUserTokens raises the reauthorization-required
\* error to its caller and the stored credential is cleared.
C14_ReauthorizationRaised ==
  [][\A c \in TokenCalls :
       (Refreshes(c) /\ task'[c].answer.error \in InvalidGrantErrors) =>
         /\ task'[c].pc = "done"
         /\ task'[c].raised = ReauthorizationRequired
         /\ profile' = NoCredential]_vars

C16_TransientKeepsCredential ==
  [][\A c \in TokenCalls :
       (Refreshes(c) /\ task'[c].answer.error \in TransientErrors) =>
         /\ profile' = profile
         /\ task'[c].pc = "done" /\ task'[c].raised = NoError
         /\ task'[c].result = StoredTokens(task[c].data)]_vars

C16_Witness ==
  \E c \in TokenCalls :
    /\ task[c].pc = "done" /\ task[c].answer.error \in TransientErrors
    /\ profile = task[c].data /\ profile.youtube_refresh_token # NoToken

\* the credential that call c read has an access token whose expiry has passed
ReadExpired(c) ==
  /\ task'[c].data.youtube_token_expires_at # NULL
  /\ task'[c].data.youtube_token_expires_at < now

Disconnects ==
  /\ last'.kind = "disconnect" /\ last'.error = ""
  /\ UNCHANGED <<task, now>>

\* C28: whatever connects, disconnects and calls of getUserTokens (with
\* accepted, revoked or transiently failing refreshes) have happened, the
\* stored refresh token and expiry are non-null only if the stored access
\* token is non-null; a disconnect leaves all three columns null.
C28_CredentialRowConsistent ==
  [][/\ profile.youtube_access_token = NoToken => profile = NoCredential
     /\ profile'.youtube_access_token = NoToken => profile' = NoCredential
     /\ Disconnects => profile' = NoCredential]_vars

\* a disconnect has cleared the credential while a getUserTokens that had read
\* it with its refresh token was waiting for the refresh
C28_Witness ==
  \E c \in TokenCalls :
    /\ last.kind = "disconnect" /\ last.error = "" /\ profile = NoCredential
    /\ task[c].pc = "refresh" /\ task[c].data.youtube_refresh_token # NoToken

\* ================================================ one sweep over a queue
\* processPendingUploads on a table of NumQueued rows that earlier requests
\* and invocations have left in some status, at time MaxTime: a row updated
\* at 0 is older than the staleness window, one updated exactly one window ago
\* or just now is not.
NumQueued == 2

QueuedIds == 1..NumQueued

QueuedKinds ==
  {k \in [status : {"pending", "processing", "uploaded", "failed"},
          updated_at : {0, MaxTime - StaleWindow, MaxTime},
          scheduled_at : {NULL, 1, MaxTime + 1}] :
     /\ k.status # "processing" => k.updated_at = 0
     /\ k.status # "pending" => k.scheduled_at = NULL}

QueuedRow(id, k) ==
  [status |-> k.status, youtube_video_id |-> IF k.status = "uploaded" THEN id ELSE NULL,
   error_message |-> IF k.status = "failed" THEN "Video creation failed" ELSE "",
   updated_at |-> k.updated_at, user_id |-> Owner, cdn_url |-> FALSE, s3_key |-> TRUE,
   thumbnail_url |-> FALSE, scheduled_at |-> k.scheduled_at,
   privacy_status |-> "public", title |-> 1, description |-> NULL, tags |-> NULL]

\* videos[i] is the remote video of record i if that record is uploaded
InitSweep ==
  /\ \E k \in [QueuedIds -> QueuedKinds] :
       /\ uploads = [i \in QueuedIds |-> QueuedRow(i, k[i])]
       /\ videos = [i \in QueuedIds |-> [rid |-> i, deleted |-> k[i].status # "uploaded",
                                         thumbnail |-> FALSE,
                                         snippet |-> Snippet(UploadOptions(QueuedRow(i, k[i])))]]
  /\ profile \in StoredProfiles
  /\ task = [t \in Tasks |-> IdleTask]
  /\ last = NoOutcome
  /\ requests = [i \in QueuedIds |-> NoRequest]
  /\ now = MaxTime
  /\ crashes = 0

\* the one worker whose pass is followed
Sweeper == NumRecords + 1

NextSweep ==
  \/ SweepStart(Sweeper)
  \/ PU_Load(Sweeper)
  \/ PU_Claim(Sweeper)
  \/ PU_Tokens(Sweeper)
  \/ PU_File(Sweeper)
  \/ PU_Compose(Sweeper)
  \/ PU_Publish(Sweeper)
  \/ PU_Mark(Sweeper)
  \/ PU_Catch(Sweeper)
  \/ Delay(Sweeper)

SweepSpec == InitSweep /\ [][NextSweep]_vars

InBatch(batch, i) == \E n \in 1..Len(batch) : batch[n] = i

\* the caps of getPendingUploads leave record i out of the batch
CappedOut(batch, i) ==
  \/ Len(batch) = BatchLimit
  \/ Cardinality({j \in DOMAIN uploads : uploads[j].status = uploads[i].status}) >
       IF uploads[i].status = "pending" THEN PendingLimit ELSE StuckLimit

\* C18: getPendingUploads returns a processing record exactly when its
\* updated_at is older than the staleness window (the caps permitting), and
\* never an uploaded or failed record.
C18_StaleProcessingOnly ==
  LET batch == GetPendingUploads(uploads) IN
  \A i \in DOMAIN uploads :
    /\ uploads[i].status = "processing" =>
         /\ InBatch(batch, i) => uploads[i].updated_at < now - StaleWindow
         /\ uploads[i].updated_at < now - StaleWindow =>
              InBatch(batch, i) \/ CappedOut(batch, i)
    /\ uploads[i].status \in {"uploaded", "failed"} => ~InBatch(batch, i)

\* a sweep has just fetched a batch that holds a stale processing record and
\* leaves out a fresh one
C18_Witness ==
  \E t \in SweepTasks, i, j \in DOMAIN uploads :
    /\ task[t].pc = "load" /\ task[t].batch = GetPendingUploads(uploads)
    /\ uploads[i].status = "processing" /\ uploads[i].updated_at < now - StaleWindow
    /\ InBatch(task[t].batch, i)
    /\ uploads[j].status = "processing" /\ uploads[j].updated_at >= now - StaleWindow
    /\ ~InBatch(task[t].batch, j)

EndsInSweep(t) ==
  /\ task[t].pc \in {"load", "claim", "mark", "catch"}
  /\ task'[t].pc \in {"idle", "delay", "load"}
  /\ task'[t] # task[t]

\* C20: an error raised by processUpload for one record of the batch does not
\* stop the pass: the sweep goes on to call processUpload for the next record
\* of the batch, in batch order, and the pass ends, without raising, only
\* behind the last record.
C20_PassSurvivesErrors ==
  [][\A t \in SweepTasks :
       /\ (EndsInSweep(t) /\ last'.kind = "raised") =>
            IF Len(task[t].batch) > 1
              THEN /\ task'[t].pc = "load"
                   /\ task'[t].rid = task[t].batch[2]
                   /\ task'[t].batch = Tail(task[t].batch)
              ELSE task'[t] = IdleTask
       /\ (task[t].batch # <<>> /\ task'[t] # task[t]) =>
            \/ task'[t].batch = task[t].batch
            \/ task'[t].batch = Tail(task[t].batch) /\ task'[t].pc = "load"
            \/ Len(task[t].batch) = 1 /\ task'[t] = IdleTask
       /\ task'[t].pc = "load" => task'[t].rid = Head(task'[t].batch)]_vars

\* the sweep is about to call processUpload for the second record of its batch
\* after processUpload raised for the first
C20_Witness ==
  \E t \in SweepTasks :
    /\ task[t].pc = "load" /\ Len(task[t].batch) >= 1
    /\ last.task = t /\ last.kind = "raised"
    /\ last.rid < task[t].rid /\ task[t].rid = Head(task[t].batch)
    /\ uploads[last.rid].status = "failed"

\* What the worker's scheduling guarantees: setInterval starts a pass every
\* 30 s, every await of a pass returns, and the store does not refuse the
\* claiming write for ever.
SweepFairness ==
  /\ WF_vars(SweepStart(Sweeper)) /\ WF_vars(Delay(Sweeper))
  /\ WF_vars(PU_Load(Sweeper)) /\ WF_vars(PU_Claim(Sweeper))
  /\ WF_vars(PU_Tokens(Sweeper)) /\ WF_vars(PU_File(Sweeper))
  /\ WF_vars(PU_Compose(Sweeper)) /\ WF_vars(PU_Publish(Sweeper))
  /\ WF_vars(PU_Mark(Sweeper)) /\ WF_vars(PU_Catch(Sweeper))
  /\ SF_vars(PU_Claim(Sweeper) /\ uploads' # uploads)

FairSweepSpec == SweepSpec /\ SweepFairness

C26_DelayBetweenItems ==
  [][\A t \in SweepTasks :
       (EndsInSweep(t) /\ Len(task[t].batch) > 1) =>
         /\ task'[t].pc = "delay"
         /\ task'[t].batch = task[t].batch]_vars

\* ------------------------------------------------ the batch of one pass
\* getPendingUploads on tables in which more records are pending and more are
\* stuck than the limits of the two queries let through: p pending records
\* and s stuck ones, either kind first, the stuck ones last updated in
\* ascending or descending order of their ids, followed by a record that is
\* processing but not stale yet and an uploaded one.
ExtraRows == 1

LongTables ==
  {[p |-> p, s |-> s, stuckFirst |-> f, ascending |-> a] :
     p \in 0..(PendingLimit + ExtraRows), s \in 0..(StuckLimit + ExtraRows),
     f \in BOOLEAN, a \in BOOLEAN}

LongTableRow(k, id) ==
  LET n == k.p + k.s
      isStuck == IF k.stuckFirst THEN id <= k.s ELSE id > k.p /\ id <= n
      rank == IF k.stuckFirst THEN id ELSE id - k.p
      age == IF k.ascending THEN rank % (MaxTime + 1) ELSE (k.s - rank) % (MaxTime + 1)
  IN IF id = n + 1
       THEN QueuedRow(id, [status |-> "processing", updated_at |-> MaxTime + 1,
                           scheduled_at |-> NULL])
     ELSE IF id = n + 2
       THEN QueuedRow(id, [status |-> "uploaded", updated_at |-> 0, scheduled_at |-> NULL])
     ELSE IF isStuck
       THEN QueuedRow(id, [status |-> "processing", updated_at |-> age,
                           scheduled_at |-> NULL])
     ELSE QueuedRow(id, [status |-> "pending", updated_at |-> 0,
                         scheduled_at |-> IF id % 2 = 0 THEN NULL ELSE MaxTime + 3])

InitBatch ==
  /\ \E k \in LongTables :
       uploads = [id \in 1..(k.p + k.s + 2) |-> LongTableRow(k, id)]
  /\ videos = <<>>
  /\ profile \in StoredProfiles
  /\ task = [t \in Tasks |-> IdleTask]
  /\ last = NoOutcome
  /\ requests = <<>>
  /\ now = MaxTime + StaleWindow + 1
  /\ crashes = 0

\* the worker fetches its batch; the processing of the batch is not followed
NextBatch == SweepStart(Sweeper)

BatchSpec == InitBatch /\ [][NextBatch]_vars

NoDuplicates(batch) ==
  \A m, n \in 1..Len(batch) : m # n => batch[m] # batch[n]

\* C27: the list getPendingUploads returns for one pass never contains the
\* same record id twice and never more than 10 records.
C27_BatchShape ==
  LET batch == GetPendingUploads(uploads) IN
  /\ NoDuplicates(batch) /\ Len(batch) <= BatchLimit
  /\ \A t \in SweepTasks :
       NoDuplicates(task[t].batch) /\ Len(task[t].batch) <= BatchLimit

\* a pass has fetched a full batch from a table with more pending records than
\* the batch holds and stuck records besides
C27_Witness ==
  /\ task[Sweeper].pc = "load" /\ Len(task[Sweeper].batch) = BatchLimit
  /\ Cardinality({i \in DOMAIN uploads : uploads[i].status = "pending"}) > PendingLimit
  /\ Cardinality({i \in DOMAIN uploads : IsStuck(uploads[i])}) > StuckLimit

\* ======================================== createYouTubeUploadController
\* POST /api/youtube/upload for one user within one billing period: the
\* validation of the request, the plan and quota checks, the files lookup, the
\* insert and the start of the immediate attempt.  The table is a sequence in
\* which a record's id is its position; a deleted record leaves an absent row
\* behind, so Len(uploads) counts the records ever created.  requests is
\* indexed by the ids the table can hand out.
MaxExcess == 50
MaxCreated == 5
NumCallers == 2

Attempts == 1..MaxCreated
CreateCalls == (MaxCreated + 1)..(MaxCreated + NumCallers)
Deleter == MaxCreated + NumCallers + 1

\* PLAN_LIMITS
FreeLimit == 4
BedroomLimit == 30
Plans == {"free", "bedroom", "pro", "studio"}

PlanLimits(plan) ==
  IF plan = "bedroom" THEN [limited |-> TRUE, maxUploadsPerMonth |-> BedroomLimit,
                            allowedFormats |-> {"mp3"}]
  ELSE IF plan \in {"pro", "studio"}
    THEN [limited |-> FALSE, maxUploadsPerMonth |-> 0, allowedFormats |-> {"mp3", "wav"}]
  ELSE [limited |-> TRUE, maxUploadsPerMonth |-> FreeLimit, allowedFormats |-> {"mp3"}]

\* getUserPlan: the plan column, 'free' when it is empty or the read fails
GetUserPlan(p, ok) == IF ok /\ p.plan # "none" THEN p.plan ELSE "free"

\* the count that blocks uploads when the store cannot be read
BlockingCount == 999999

\* getMonthlyUploadCount: the user's rows created since the start of the
\* current period (here: all of the user's rows that exist)
GetMonthlyUploadCount(rows, userId, ok) ==
  IF ~ok THEN BlockingCount
  ELSE Cardinality({i \in DOMAIN rows :
                      rows[i].status # "absent" /\ rows[i].user_id = userId})

\* a text of the request body: its length and how many of its characters
\* sanitizeString(..).trim() takes away (angle brackets, outer blanks)
Text(chars, stripped) == [chars |-> chars, stripped |-> stripped]

SanitizeString(text) == text.chars - text.stripped

\* the request bodies.  fields tells whether userId and fileId are there; an
\* absent description is taken like the empty one and an absent tag list like
\* the empty one, as the controller does; tags is the number of tags and how
\* many of them are blank
TagList(count, blank) == [count |-> count, blank |-> blank]

PlainBody ==
  [fields |-> TRUE, title |-> Text(1, 0), description |-> Text(0, 0),
   tags |-> TagList(0, 0),
   thumbnailUrl |-> "none", scheduledAt |-> "none", privacyStatus |-> "public"]

Lengths(limit) == {1, limit, limit + 1, limit + MaxExcess}

MetaBodies ==
  {[PlainBody EXCEPT !.title = Text(n, k), !.description = d, !.tags = g] :
     n \in {0} \cup Lengths(TitleLimit), k \in {0, 1},
     d \in {Text(m, 0) : m \in {0} \cup Lengths(DescriptionLimit)},
     g \in {TagList(0, 0)} \cup {TagList(m, b) : m \in Lengths(TagLimit), b \in {0, 1}}}
  \cup {[PlainBody EXCEPT !.fields = FALSE],
        [PlainBody EXCEPT !.thumbnailUrl = "invalid"],
        [PlainBody EXCEPT !.thumbnailUrl = "valid", !.privacyStatus = "hidden"],
        [PlainBody EXCEPT !.scheduledAt = "invalid"],
        [PlainBody EXCEPT !.scheduledAt = "past"],
        [PlainBody EXCEPT !.scheduledAt = "future", !.privacyStatus = "unlisted"]}

IdleCreate == [pc |-> "idle", body |-> PlainBody, plan |-> "none"]

\* the response sent last
NoResponse == [task |-> 0, status |-> 0, error |-> "", id |-> 0]

Respond(c, status, error, id) ==
  /\ last' = [task |-> c, status |-> status, error |-> error, id |-> id]
  /\ task' = [task EXCEPT ![c] = IdleCreate]

\* the checks made before the first await; "" when the request passes
ValidateBody(body) ==
  IF ~body.fields \/ body.title.chars = 0 THEN "Missing required fields"
  ELSE IF SanitizeString(body.title) = 0 THEN "Invalid title"
  ELSE IF SanitizeString(body.title) > TitleLimit THEN "Title too long"
  ELSE ""

\* the request arrives; a rejected one is answered with 400.  No more requests
\* are taken than the table has ids left.
CU_Start(c, bodies) ==
  /\ task[c].pc = "idle"
  /\ Len(uploads) + Cardinality({d \in CreateCalls : task[d].pc # "idle"})
       < Cardinality(DOMAIN requests)
  /\ \E body \in bodies :
       IF ValidateBody(body) # ""
         THEN /\ last' = [task |-> c, status |-> 400, error |-> ValidateBody(body),
                          id |-> 0]
              /\ UNCHANGED task
         ELSE /\ task' = [task EXCEPT ![c] = [IdleCreate EXCEPT !.pc = "plan",
                                                                !.body = body]]
              /\ UNCHANGED last
  /\ UNCHANGED <<uploads, profile, videos, requests, now, crashes>>

\* "Get user plan"
CU_Plan(c) ==
  /\ task[c].pc = "plan"
  /\ \E ok \in BOOLEAN :
       LET plan == GetUserPlan(profile, ok) IN
       task' = [task EXCEPT ![c] =
                  [@ EXCEPT !.plan = plan,
                            !.pc = IF PlanLimits(plan).limited THEN "count" ELSE "file"]]
  /\ UNCHANGED <<uploads, profile, last, videos, requests, now, crashes>>

LimitReached == "Monthly upload limit reached"

\* "Check monthly upload limit"
QuotaExceeded(monthlyCount, limits) == monthlyCount >= limits.maxUploadsPerMonth

CU_Count(c) ==
  /\ task[c].pc = "count"
  /\ \E ok \in BOOLEAN :
       LET monthlyCount == GetMonthlyUploadCount(uploads, Owner, ok) IN
       IF QuotaExceeded(monthlyCount, PlanLimits(task[c].plan))
         THEN Respond(c, 403, LimitReached, 0)
         ELSE /\ task' = [task EXCEPT ![c].pc = "file"]
              /\ UNCHANGED last
  /\ UNCHANGED <<uploads, profile, videos, requests, now, crashes>>

\* validateFileFormat
FormatAllowed(format, plan) == format \in PlanLimits(plan).allowedFormats

\* the checks between the files lookup and the insert; "" when all pass
ValidateFile(body, file, plan) ==
  IF file = "missing" THEN [status |-> 404, error |-> "File not found"]
  ELSE IF ~FormatAllowed(file, plan)
    THEN [status |-> 403, error |-> "File format not allowed"]
  ELSE IF body.scheduledAt \in {"invalid", "past"}
    THEN [status |-> 400, error |-> "Invalid scheduled date"]
  ELSE IF body.thumbnailUrl = "invalid"
    THEN [status |-> 400, error |-> "Invalid thumbnail URL"]
  ELSE [status |-> 200, error |-> ""]

\* "Get file metadata to validate format", then the checks of the schedule
\* and the thumbnail URL
CU_File(c) ==
  /\ task[c].pc = "file"
  /\ \E file \in {"missing", "mp3", "wav", "flac"} :
       LET r == ValidateFile(task[c].body, file, task[c].plan) IN
       IF r.status # 200
         THEN Respond(c, r.status, r.error, 0)
         ELSE /\ task' = [task EXCEPT ![c].pc = "insert"]
              /\ UNCHANGED last
  /\ UNCHANGED <<uploads, profile, videos, requests, now, crashes>>

\* the record the controller hands to createYouTubeUpload
RecordOf(body) ==
  LET description == IF body.description.chars = 0
                       THEN NULL ELSE SanitizeString(body.description)
      tags == body.tags.count - body.tags.blank
  IN [NewUploadRow(FALSE, TRUE, body.thumbnailUrl = "valid",
                   IF body.scheduledAt = "future" THEN now + 1 ELSE NULL,
                   IF body.privacyStatus \in Privacies THEN body.privacyStatus
                   ELSE "public")
        EXCEPT !.title = SanitizeString(body.title),
               !.description = description,
               !.tags = IF tags > 0 THEN tags ELSE NULL]

\* "Create YouTube upload record", the start of the immediate attempt and the
\* response; an error of the insert is answered with 500
CU_Insert(c) ==
  /\ task[c].pc = "insert"
  /\ \E ok \in BOOLEAN :
       IF ok
         THEN LET id == Len(uploads) + 1 IN
              /\ uploads' = Append(uploads, RecordOf(task[c].body))
              /\ last' = [task |-> c, status |-> 200, error |-> "", id |-> id]
              /\ task' = [task EXCEPT ![c] = IdleCreate, ![id] = StartItem(id, <<>>)]
         ELSE /\ Respond(c, 500, "Failed to create YouTube upload", 0)
              /\ UNCHANGED uploads
  /\ UNCHANGED <<profile, videos, requests, now, crashes>>

\* ---------------------------------------------- one request and its attempt
\* a single record, submitted with metadata of every length around the limits
\* and then taken through processUpload by the immediate attempt
InitMeta ==
  /\ uploads = <<>>
  /\ profile \in {[access_token |-> TRUE, refresh_token |-> r, plan |-> p] :
                    r \in BOOLEAN, p \in {"none", "free", "pro"}}
  /\ task = [t \in Attempts \cup CreateCalls |->
               IF t \in CreateCalls THEN IdleCreate ELSE IdleTask]
  /\ last = NoResponse
  /\ videos = <<>>
  /\ requests = [i \in Ids |-> NoRequest]
  /\ now = 0
  /\ crashes = 0

\* the one client whose request is followed
Caller == MaxCreated + 1

NextMeta ==
  \/ CU_Start(Caller, MetaBodies)
  \/ CU_Plan(Caller)
  \/ CU_Count(Caller)
  \/ CU_File(Caller)
  \/ CU_Insert(Caller)
  \/ \E t \in IntakeTasks : PU_Load(t)
  \/ \E t \in IntakeTasks : PU_Claim(t)
  \/ \E t \in IntakeTasks : PU_Tokens(t)
  \/ \E t \in IntakeTasks : PU_File(t)
  \/ \E t \in IntakeTasks : PU_Compose(t)
  \/ \E t \in IntakeTasks : PU_Publish(t)
  \/ \E t \in IntakeTasks : PU_Mark(t)
  \/ \E t \in IntakeTasks : PU_Catch(t)

MetaSpec == InitMeta /\ [][NextMeta]_vars

\* what was sent to the remote video API for every video is the record's
\* metadata cut to the limits
SentTruncated ==
  \A v \in 1..Len(videos) :
    LET row == uploads[videos[v].rid] IN
    /\ videos[v].snippet.title = Substring(row.title, TitleLimit)
    /\ row.description # NULL =>
         videos[v].snippet.description = Substring(row.description, DescriptionLimit)
    /\ row.tags # NULL => videos[v].snippet.tags = Substring(row.tags, TagLimit)

\* C21: over-long metadata is truncated, never rejected: what is sent to the
\* remote video API is the record's title cut to 100 characters, its
\* description cut to 5000 characters and its tag list cut to 500 tags, and no
\* request is refused because its title is longer than 100 characters.
C21_TruncatedNeverRejected ==
  /\ SentTruncated
  /\ ~(last.status = 400 /\ last.error = "Title too long")

\* ------------------------------------------- requests against the quota
\* NumCallers clients that send plain requests one after the other, and the
\* user deleting records in between.  The attempts that the inserts start are
\* not followed: none of the checks looks at a record's status.
InitQuota ==
  /\ uploads = <<>>
  /\ profile \in {[access_token |-> TRUE, refresh_token |-> TRUE, plan |-> p] :
                    p \in Plans}
  /\ task = [t \in Attempts \cup CreateCalls \cup {Deleter} |->
               IF t \in CreateCalls THEN IdleCreate
               ELSE IF t = Deleter THEN IdleDelete ELSE IdleTask]
  /\ last = NoResponse
  /\ videos = <<>>
  /\ requests = [i \in Attempts |-> NoRequest]
  /\ now = 0
  /\ crashes = 0

NextQuota ==
  \/ \E c \in CreateCalls : CU_Start(c, {PlainBody})
  \/ \E c \in CreateCalls : CU_Plan(c)
  \/ \E c \in CreateCalls : CU_Count(c)
  \/ \E c \in CreateCalls : CU_File(c)
  \/ \E c \in CreateCalls : CU_Insert(c)
  \/ DU_Start(Deleter)
  \/ DU_Load(Deleter)
  \/ DU_Remove(Deleter)

QuotaSpec == InitQuota /\ [][NextQuota]_vars

\* C22: a user on the Free plan (4 per period) or the Bedroom plan (30 per
\* period) never has more records created within one period than the plan
\* allows, whatever requests and deletions are made and however they
\* interleave; a user on Pro or Studio is never refused for quota.
C22_QuotaRespected ==
  /\ profile.plan = "free" => Len(uploads) <= FreeLimit
  /\ profile.plan = "bedroom" => Len(uploads) <= BedroomLimit
  /\ profile.plan \in {"pro", "studio"} =>
       ~(last.status = 403 /\ last.error = LimitReached)

====
